---- MODULE Spec2Model ----
(***************************************************************************)
(* The session manager of Flame: the storage facade (sessions, tasks,      *)
(* executors), the server-side executor state machine and the two polled   *)
(* wait primitives (wait_for_session, watch_task).                         *)
(*                                                                         *)
(* Every Storage operation is a pure operator from the store (a record of  *)
(* the sessions map, the executors map and the engine) to the store after  *)
(* the call plus the value returned to the caller; the actions apply them. *)
(***************************************************************************)
EXTENDS Integers, FiniteSets, Sequences, TLC

\* Bounds of the model.
MaxSsn == 2
MaxTask == 2
MaxExec == 2
MaxOut == 1
MaxWait == 1
MaxWatch == 1
\* The executors and sessions the runs with a watch_task in flight use.
WatchExec == 1
WatchSsn == 1
MaxThread == 2
MaxCall == 2
ProcessExec == 1
EngineExec == 1

\* Option::None of ssn_id, task_id, output (the ids start at 1).
None == 0

SessionIDs == 1..MaxSsn
TaskIDs == 1..MaxTask
ExecutorIDs == 1..MaxExec
TaskOutputs == {None} \cup (1..MaxOut)

TaskStates == {"Pending", "Running", "Succeed", "Failed", "Aborting", "Aborted"}
ExecutorStates == {"Idle", "Binding", "Bound", "Unbinding", "Unknown"}

VARIABLES
    sessions,   \* Storage.sessions: SessionID -> Session (cache)
    executors,  \* Storage.executors: ExecutorID -> Executor
    engine,     \* the durable engine: its id counter and its session/task records
    closed,     \* history: the sessions close_session has returned Ok for
    waits,      \* the wait_for_session calls in flight
    watches,    \* the watch_task calls in flight
    frontend,   \* the Frontend::watch_task RPC in flight
    completing, \* a complete_task call taken block by block
    threads,    \* the locks each thread holds, and the ones it has yet to take
    calls,      \* the create_task and close_session calls past their engine await
    process     \* the executor process: its local executor and what it has sent

vars == <<sessions, executors, engine, closed, waits, watches, frontend, completing, threads,
         calls, process>>

----------------------------------------------------------------------------
\* Maps.

Put(f, k, v) == (k :> v) @@ f

Drop(f, k) == [x \in DOMAIN f \ {k} |-> f[x]]

\* The store an operation works on, and what an operation hands back:
\* the store after it, the result code, the value returned, and the task
\* ids of the session `val_ssn` whose TaskPtr was replaced by a new one.
Store == [sessions |-> sessions, executors |-> executors, engine |-> engine]

Ret(S, ret, val) ==
    [sessions |-> S.sessions, executors |-> S.executors, engine |-> S.engine,
     ret |-> ret, val |-> val, replaced |-> {}]

StoreOf(r) == [sessions |-> r.sessions, executors |-> r.executors, engine |-> r.engine]

----------------------------------------------------------------------------
\* Data model: Session, Task and their index.

is_completed(task) == task.state \in {"Succeed", "Failed", "Aborted"}

NewSession ==
    [state |-> "Open", allocated |-> 0, tasks |-> << >>,
     tasks_by_state |-> [st \in TaskStates |-> {}]]

\* Session::add_task: insert the task under its id and into the bucket of
\* its state.
add_task(ssn, tid, task) ==
    [ssn EXCEPT !.tasks = Put(@, tid, task),
                !.tasks_by_state[task.state] = @ \cup {tid}]

\* Session::pop_pending_task, for the Pending task `tid` it picks.
pop_pending_task(ssn, tid) ==
    [ssn EXCEPT !.tasks_by_state["Pending"] = @ \ {tid}]

\* Session::update_task_state: move the task between the buckets.
Session_update_task_state(ssn, tid, state) ==
    [ssn EXCEPT !.tasks_by_state =
                    [st \in TaskStates |->
                        IF st = state THEN @[st] \cup {tid}
                        ELSE IF st = ssn.tasks[tid].state THEN @[st] \ {tid}
                        ELSE @[st]],
                !.tasks[tid].state = state]

----------------------------------------------------------------------------
\* The engine: authoritative for ids; one record per session and task.

NewEngine == [next_id |-> 1, ssns |-> << >>, down |-> FALSE]

\* A call the engine cannot serve fails and writes nothing.
Unavailable(eng) == [ret |-> "Internal", val |-> None, eng |-> eng]

Engine_create_session(eng) ==
    IF eng.down THEN Unavailable(eng)
    ELSE [ret |-> "Ok", val |-> eng.next_id,
          eng |-> [eng EXCEPT
                    !.next_id = eng.next_id + 1,
                    !.ssns = Put(eng.ssns, eng.next_id,
                                 [state |-> "Open", tasks |-> << >>])]]

Engine_close_session(eng, id) ==
    IF eng.down THEN Unavailable(eng)
    ELSE IF id \notin DOMAIN eng.ssns
    THEN [ret |-> "NotFound", val |-> None, eng |-> eng]
    ELSE [ret |-> "Ok", val |-> id,
          eng |-> [eng EXCEPT !.ssns[id].state = "Closed"]]

Engine_delete_session(eng, id) ==
    IF eng.down THEN Unavailable(eng)
    ELSE IF id \notin DOMAIN eng.ssns
    THEN [ret |-> "NotFound", val |-> None, eng |-> eng]
    ELSE [ret |-> "Ok", val |-> id,
          eng |-> [eng EXCEPT !.ssns = Drop(@, id)]]

Engine_create_task(eng, ssn_id) ==
    IF eng.down THEN Unavailable(eng)
    ELSE IF ssn_id \notin DOMAIN eng.ssns
    THEN [ret |-> "NotFound", val |-> None, eng |-> eng]
    ELSE IF eng.ssns[ssn_id].state = "Closed"
    THEN [ret |-> "InvalidState", val |-> None, eng |-> eng]
    ELSE LET tid == Cardinality(DOMAIN eng.ssns[ssn_id].tasks) + 1
         IN  [ret |-> "Ok", val |-> tid,
              eng |-> [eng EXCEPT !.ssns[ssn_id].tasks =
                          Put(@, tid, [state |-> "Pending", output |-> None])]]

Engine_update_task_state(eng, ssn_id, task_id, state) ==
    IF eng.down THEN Unavailable(eng)
    ELSE IF ssn_id \notin DOMAIN eng.ssns \/ task_id \notin DOMAIN eng.ssns[ssn_id].tasks
    THEN [ret |-> "NotFound", val |-> None, eng |-> eng]
    ELSE [ret |-> "Ok", val |-> task_id,
          eng |-> [eng EXCEPT !.ssns[ssn_id].tasks[task_id].state = state]]

----------------------------------------------------------------------------
\* Storage: sessions and tasks.

\* Faulty variant: the session is put into the map whatever the engine answers.
Storage_create_session_unchecked(S) ==
    LET r == Engine_create_session(S.engine)
    IN  [Ret(S, r.ret, r.val) EXCEPT
            !.engine = r.eng,
            !.sessions = Put(S.sessions, S.engine.next_id, NewSession)]

Storage_create_session(S) ==
    LET r == Engine_create_session(S.engine)
    IN  IF r.ret # "Ok" THEN Ret(S, r.ret, None)
        ELSE [Ret(S, "Ok", r.val) EXCEPT
                !.engine = r.eng,
                !.sessions = Put(S.sessions, r.val, NewSession)]

Storage_get_session_ptr(S, id) ==
    IF id \in DOMAIN S.sessions THEN "Ok" ELSE "NotFound"

Storage_get_task_ptr(S, ssn_id, task_id) ==
    IF ssn_id \notin DOMAIN S.sessions THEN "NotFound"
    ELSE IF task_id \notin DOMAIN S.sessions[ssn_id].tasks THEN "NotFound"
    ELSE "Ok"

\* Faulty variant: the engine closes the session, the cached state is not flipped.
Storage_close_session_engine_only(S, id) ==
    LET r == Engine_close_session(S.engine, id)
    IN  IF r.ret # "Ok" THEN Ret(S, r.ret, None)
        ELSE Ret([S EXCEPT !.engine = r.eng], "Ok", None)

Storage_close_session(S, id) ==
    LET r == Engine_close_session(S.engine, id)
        E == [S EXCEPT !.engine = r.eng]
    IN  IF r.ret # "Ok" THEN Ret(S, r.ret, None)
        ELSE IF Storage_get_session_ptr(E, r.val) # "Ok" THEN Ret(E, "NotFound", None)
        ELSE Ret([E EXCEPT !.sessions[r.val].state = "Closed"], "Ok", None)

\* Faulty variant: the engine removes the session, the cache keeps it.
Storage_delete_session_engine_only(S, id) ==
    LET r == Engine_delete_session(S.engine, id)
    IN  IF r.ret # "Ok" THEN Ret(S, r.ret, None)
        ELSE Ret([S EXCEPT !.engine = r.eng], "Ok", None)

Storage_delete_session(S, id) ==
    LET r == Engine_delete_session(S.engine, id)
    IN  IF r.ret # "Ok" THEN Ret(S, r.ret, None)
        ELSE Ret([S EXCEPT !.engine = r.eng, !.sessions = Drop(@, r.val)], "Ok", None)

\* Faulty variant: the task is put into the cached session before the engine is asked.
Storage_create_task_cache_first(S, ssn_id) ==
    LET r == Engine_create_task(S.engine, ssn_id)
        tid == IF ssn_id \in DOMAIN S.sessions
               THEN Cardinality(DOMAIN S.sessions[ssn_id].tasks) + 1 ELSE None
        A == IF ssn_id \in DOMAIN S.sessions
             THEN [S EXCEPT !.sessions[ssn_id] =
                        add_task(@, tid, [state |-> "Pending", output |-> None])]
             ELSE S
    IN  IF r.ret # "Ok" THEN Ret(A, r.ret, None)
        ELSE Ret([A EXCEPT !.engine = r.eng], "Ok", r.val)

\* Faulty variant: the engine's task is never added to the cached session.
Storage_create_task_engine_only(S, ssn_id) ==
    LET r == Engine_create_task(S.engine, ssn_id)
    IN  IF r.ret # "Ok" THEN Ret(S, r.ret, None)
        ELSE Ret([S EXCEPT !.engine = r.eng], "Ok", r.val)

Storage_create_task(S, ssn_id) ==
    LET r == Engine_create_task(S.engine, ssn_id)
        E == [S EXCEPT !.engine = r.eng]
    IN  IF r.ret # "Ok" THEN Ret(S, r.ret, None)
        ELSE IF Storage_get_session_ptr(E, ssn_id) # "Ok" THEN Ret(E, "NotFound", None)
        ELSE Ret([E EXCEPT !.sessions[ssn_id] =
                        add_task(@, r.val, r.eng.ssns[ssn_id].tasks[r.val])],
                 "Ok", r.val)

\* Faulty variant: the task the caller passed is added again, not the engine's.
Storage_update_task_state_stale(S, ssn_id, task_id, state) ==
    LET r == Engine_update_task_state(S.engine, ssn_id, task_id, state)
        E == [S EXCEPT !.engine = r.eng]
    IN  IF r.ret # "Ok" THEN Ret(S, r.ret, None)
        ELSE [Ret([E EXCEPT !.sessions[ssn_id] =
                        add_task(@, task_id, S.sessions[ssn_id].tasks[task_id])],
                  "Ok", None)
              EXCEPT !.replaced = {task_id}]

\* The engine's updated task is added to the session again, as a new TaskPtr
\* that takes the place of the one the caller passed.
Storage_update_task_state(S, ssn_id, task_id, state) ==
    LET r == Engine_update_task_state(S.engine, ssn_id, task_id, state)
        E == [S EXCEPT !.engine = r.eng]
    IN  IF r.ret # "Ok" THEN Ret(S, r.ret, None)
        ELSE [Ret([E EXCEPT !.sessions[ssn_id] =
                        add_task(@, task_id, r.eng.ssns[ssn_id].tasks[task_id])],
                  "Ok", None)
              EXCEPT !.replaced = {task_id}]

Storage_get_session(S, id) ==
    IF Storage_get_session_ptr(S, id) # "Ok" THEN Ret(S, "NotFound", None)
    ELSE Ret(S, "Ok", S.sessions[id])

Storage_get_task(S, ssn_id, id) ==
    IF Storage_get_task_ptr(S, ssn_id, id) # "Ok" THEN Ret(S, "NotFound", None)
    ELSE Ret(S, "Ok", S.sessions[ssn_id].tasks[id])

Storage_list_session(S) == Ret(S, "Ok", DOMAIN S.sessions)

----------------------------------------------------------------------------
\* Storage: executors, and the state handlers the verbs are forwarded to.

NewExecutor(state) == [state |-> state, ssn_id |-> None, task_id |-> None]

Storage_register_executor(S, id, state) ==
    Ret([S EXCEPT !.executors = Put(@, id, NewExecutor(state))], "Ok", None)

\* Deregistration: the executor vanishes from the executors map.
Storage_unregister_executor(S, id) ==
    IF id \notin DOMAIN S.executors THEN Ret(S, "NotFound", None)
    ELSE Ret([S EXCEPT !.executors = Drop(@, id)], "Ok", None)

Storage_get_executor_ptr(S, id) ==
    IF id \in DOMAIN S.executors THEN "Ok" ELSE "NotFound"

\* states::from: the handler of the executor's state; none for Unknown.
states_from(S, id) ==
    IF S.executors[id].state = "Unknown" THEN "InvalidState" ELSE "Ok"

\* A verb the executor's state has no transition for.
Reject(S) == Ret(S, "InvalidState", None)

IdleState_bind_session(S, id, ssn_id) ==
    Ret([S EXCEPT !.executors[id].ssn_id = ssn_id,
                  !.executors[id].state = "Binding"], "Ok", None)

BindingState_bind_session_completed(S, id) ==
    Ret([S EXCEPT !.executors[id].state = "Bound"], "Ok", None)

BindingState_unbind_executor(S, id) ==
    Ret([S EXCEPT !.executors[id].state = "Unbinding"], "Ok", None)

BoundState_unbind_executor(S, id) ==
    Ret([S EXCEPT !.executors[id].state = "Unbinding"], "Ok", None)

\* pop one Pending task, mark it Running (written through to the engine),
\* record it in the executor; None when the session has no Pending task.
BoundState_launch_task(S, id, ssn_id, pick) ==
    IF pick = None THEN Ret(S, "Ok", None)
    ELSE LET P == [S EXCEPT !.sessions[ssn_id] = pop_pending_task(@, pick)]
             r == Storage_update_task_state(P, ssn_id, pick, "Running")
         IN  IF r.ret # "Ok" THEN r
             ELSE [r EXCEPT !.executors[id].task_id = pick, !.val = pick]

BoundState_complete_task(S, id, ssn_id, task_id, task_output) ==
    LET A == [S EXCEPT !.executors[id].task_id = None]
        B == [A EXCEPT !.sessions[ssn_id].tasks[task_id].output = task_output]
    IN  Ret([B EXCEPT !.sessions[ssn_id] =
                    Session_update_task_state(@, task_id, "Succeed")], "Ok", None)

\* todo!(): the call aborts before it takes any lock.
UnbindingState_bind_session(S, id, ssn_id) == Ret(S, "Panic", None)

UnbindingState_bind_session_completed(S, id) == Ret(S, "Panic", None)

UnbindingState_unbind_executor(S, id) ==
    Ret([S EXCEPT !.executors[id].state = "Unbinding"], "Ok", None)

\* Faulty variant: the session id survives the return to Idle.
UnbindingState_unbind_executor_completed_keeps_ssn(S, id) ==
    Ret([S EXCEPT !.executors[id].state = "Idle",
                  !.executors[id].task_id = None], "Ok", None)

\* Faulty variant: the task id survives the return to Idle.
UnbindingState_unbind_executor_completed_keeps_task(S, id) ==
    Ret([S EXCEPT !.executors[id].state = "Idle",
                  !.executors[id].ssn_id = None], "Ok", None)

UnbindingState_unbind_executor_completed(S, id) ==
    Ret([S EXCEPT !.executors[id].state = "Idle",
                  !.executors[id].ssn_id = None,
                  !.executors[id].task_id = None], "Ok", None)

UnbindingState_launch_task(S, id, ssn_id) == Ret(S, "Ok", None)

\* Faulty variant: the executor keeps its task after completing it.
UnbindingState_complete_task_keeps_task(S, id, ssn_id, task_id, task_output) ==
    LET B == [S EXCEPT !.sessions[ssn_id].tasks[task_id].output = task_output]
    IN  Ret([B EXCEPT !.sessions[ssn_id] =
                    Session_update_task_state(@, task_id, "Succeed")], "Ok", None)

\* Faulty variant: the task's state is written without moving it between the buckets.
UnbindingState_complete_task_no_index(S, id, ssn_id, task_id, task_output) ==
    LET A == [S EXCEPT !.executors[id].task_id = None]
    IN  Ret([A EXCEPT !.sessions[ssn_id].tasks[task_id].output = task_output,
                      !.sessions[ssn_id].tasks[task_id].state = "Succeed"], "Ok", None)

UnbindingState_complete_task(S, id, ssn_id, task_id, task_output) ==
    LET A == [S EXCEPT !.executors[id].task_id = None]
        B == [A EXCEPT !.sessions[ssn_id].tasks[task_id].output = task_output]
    IN  Ret([B EXCEPT !.sessions[ssn_id] =
                    Session_update_task_state(@, task_id, "Succeed")], "Ok", None)

Storage_bind_session(S, id, ssn_id) ==
    IF Storage_get_executor_ptr(S, id) # "Ok" THEN Ret(S, "NotFound", None)
    ELSE IF states_from(S, id) # "Ok" THEN Ret(S, "InvalidState", None)
    ELSE IF Storage_get_session_ptr(S, ssn_id) # "Ok" THEN Ret(S, "NotFound", None)
    ELSE CASE S.executors[id].state = "Idle" -> IdleState_bind_session(S, id, ssn_id)
           [] S.executors[id].state = "Unbinding" -> UnbindingState_bind_session(S, id, ssn_id)
           [] OTHER -> Reject(S)

Storage_bind_session_completed(S, id) ==
    IF Storage_get_executor_ptr(S, id) # "Ok" THEN Ret(S, "NotFound", None)
    ELSE IF states_from(S, id) # "Ok" THEN Ret(S, "InvalidState", None)
    ELSE CASE S.executors[id].state = "Binding" -> BindingState_bind_session_completed(S, id)
           [] S.executors[id].state = "Unbinding" -> UnbindingState_bind_session_completed(S, id)
           [] OTHER -> Reject(S)

\* `pick` is the Pending task pop_pending_task hands out (None: no Pending task).
Storage_launch_task(S, id, pick) ==
    IF Storage_get_executor_ptr(S, id) # "Ok" THEN Ret(S, "NotFound", None)
    ELSE IF states_from(S, id) # "Ok" THEN Ret(S, "InvalidState", None)
    ELSE LET exec == S.executors[id]
         IN  IF exec.ssn_id = None THEN Ret(S, "InvalidState", None)
             ELSE IF exec.task_id # None
             THEN IF Storage_get_task_ptr(S, exec.ssn_id, exec.task_id) # "Ok"
                  THEN Ret(S, "NotFound", None)
                  ELSE Ret(S, "Ok", exec.task_id)
             ELSE IF Storage_get_session_ptr(S, exec.ssn_id) # "Ok"
             THEN Ret(S, "NotFound", None)
             ELSE CASE exec.state = "Bound" -> BoundState_launch_task(S, id, exec.ssn_id, pick)
                    [] exec.state = "Unbinding" -> UnbindingState_launch_task(S, id, exec.ssn_id)
                    [] OTHER -> Reject(S)

Storage_complete_task(S, id, task_output) ==
    IF Storage_get_executor_ptr(S, id) # "Ok" THEN Ret(S, "NotFound", None)
    ELSE LET exe == S.executors[id]
         IN  IF exe.ssn_id = None THEN Ret(S, "InvalidState", None)
             ELSE IF exe.task_id = None THEN Ret(S, "InvalidState", None)
             ELSE IF Storage_get_task_ptr(S, exe.ssn_id, exe.task_id) # "Ok"
             THEN Ret(S, "NotFound", None)
             ELSE IF states_from(S, id) # "Ok" THEN Ret(S, "InvalidState", None)
             ELSE CASE exe.state = "Bound" ->
                         BoundState_complete_task(S, id, exe.ssn_id, exe.task_id, task_output)
                    [] exe.state = "Unbinding" ->
                         UnbindingState_complete_task(S, id, exe.ssn_id, exe.task_id, task_output)
                    [] OTHER -> Reject(S)

Storage_unbind_executor(S, id) ==
    IF Storage_get_executor_ptr(S, id) # "Ok" THEN Ret(S, "NotFound", None)
    ELSE IF states_from(S, id) # "Ok" THEN Ret(S, "InvalidState", None)
    ELSE CASE S.executors[id].state = "Binding" -> BindingState_unbind_executor(S, id)
           [] S.executors[id].state = "Bound" -> BoundState_unbind_executor(S, id)
           [] S.executors[id].state = "Unbinding" -> UnbindingState_unbind_executor(S, id)
           [] OTHER -> Reject(S)

Storage_unbind_executor_completed(S, id) ==
    IF Storage_get_executor_ptr(S, id) # "Ok" THEN Ret(S, "NotFound", None)
    ELSE IF states_from(S, id) # "Ok" THEN Ret(S, "InvalidState", None)
    ELSE CASE S.executors[id].state = "Unbinding" -> UnbindingState_unbind_executor_completed(S, id)
           [] OTHER -> Reject(S)

\* The Pending tasks launch_task may pick for executor `id`.
Picks(S, id) ==
    IF id \in DOMAIN S.executors /\ S.executors[id].ssn_id \in DOMAIN S.sessions
       /\ S.sessions[S.executors[id].ssn_id].tasks_by_state["Pending"] # {}
    THEN S.sessions[S.executors[id].ssn_id].tasks_by_state["Pending"]
    ELSE {None}

----------------------------------------------------------------------------
\* The wait primitives. A future keeps the pointer it was built from: the
\* record stays the one in the map (`live`) until the map entry is replaced
\* by a new pointer, and from then on it is the old record (`frozen`), which
\* nothing reachable from the map changes any more.

NoExecutor == [state |-> "Unknown", ssn_id |-> None, task_id |-> None]

NoTask == [state |-> "Pending", output |-> None]

IdleWait ==
    [pc |-> "idle", id |-> None, live |-> TRUE, frozen |-> NoExecutor,
     ret |-> "None", val |-> None]

IdleWatch ==
    [pc |-> "idle", ssn_id |-> None, task_id |-> None, current_state |-> "Pending",
     live |-> TRUE, frozen |-> NoTask, ret |-> "None", val |-> NoTask]

\* The executor record behind the future's ExecutorPtr.
WaitExecutor(S, w) == IF w.live THEN S.executors[w.id] ELSE w.frozen

\* WaitForSsnFuture::poll, and the rest of wait_for_session once it is ready.
WaitForSsnFuture_poll(S, w) ==
    LET exe == WaitExecutor(S, w)
    IN  IF exe.ssn_id = None THEN [w EXCEPT !.pc = "pending"]
        ELSE IF Storage_get_session_ptr(S, exe.ssn_id) # "Ok"
        THEN [IdleWait EXCEPT !.pc = "done", !.id = w.id, !.ret = "NotFound"]
        ELSE [IdleWait EXCEPT !.pc = "done", !.id = w.id, !.ret = "Ok", !.val = exe.ssn_id]

Storage_wait_for_session(S, id) ==
    IF Storage_get_executor_ptr(S, id) # "Ok"
    THEN [IdleWait EXCEPT !.pc = "done", !.id = id, !.ret = "NotFound"]
    ELSE WaitForSsnFuture_poll(S, [IdleWait EXCEPT !.id = id])

\* The task behind the TaskPtr watch_task took before it built the future.
WatchTaskPtr(S, w) ==
    IF w.live /\ Storage_get_task_ptr(S, w.ssn_id, w.task_id) = "Ok"
    THEN S.sessions[w.ssn_id].tasks[w.task_id]
    ELSE w.frozen

\* Faulty variant: a failed lookup of the task leaves the future pending.
WatchTaskFuture_poll_keeps_waiting(S, w) ==
    IF Storage_get_task_ptr(S, w.ssn_id, w.task_id) # "Ok"
    THEN [w EXCEPT !.pc = "pending"]
    ELSE LET task == S.sessions[w.ssn_id].tasks[w.task_id]
         IN  IF w.current_state # task.state \/ is_completed(task)
             THEN [IdleWatch EXCEPT !.pc = "done", !.ssn_id = w.ssn_id,
                                    !.task_id = w.task_id,
                                    !.current_state = w.current_state,
                                    !.ret = "Ok", !.val = WatchTaskPtr(S, w)]
             ELSE [w EXCEPT !.pc = "pending"]

\* WatchTaskFuture::poll, and the rest of watch_task once it is ready.
WatchTaskFuture_poll(S, w) ==
    IF Storage_get_task_ptr(S, w.ssn_id, w.task_id) # "Ok"
    THEN [IdleWatch EXCEPT !.pc = "done", !.ssn_id = w.ssn_id, !.task_id = w.task_id,
                           !.ret = "NotFound"]
    ELSE LET task == S.sessions[w.ssn_id].tasks[w.task_id]
         IN  IF w.current_state # task.state \/ is_completed(task)
             THEN [IdleWatch EXCEPT !.pc = "done", !.ssn_id = w.ssn_id,
                                    !.task_id = w.task_id,
                                    !.current_state = w.current_state,
                                    !.ret = "Ok", !.val = WatchTaskPtr(S, w)]
             ELSE [w EXCEPT !.pc = "pending"]

Storage_watch_task(S, ssn_id, task_id) ==
    IF Storage_get_task_ptr(S, ssn_id, task_id) # "Ok"
    THEN [IdleWatch EXCEPT !.pc = "done", !.ssn_id = ssn_id, !.task_id = task_id,
                           !.ret = "NotFound"]
    ELSE WatchTaskFuture_poll(S,
            [IdleWatch EXCEPT !.ssn_id = ssn_id, !.task_id = task_id,
                              !.current_state = S.sessions[ssn_id].tasks[task_id].state])

\* A pending wait on executor `id` keeps the record the map held so far.
FreezeWaits(S, id) ==
    [k \in DOMAIN waits |->
        IF waits[k].pc = "pending" /\ waits[k].id = id /\ waits[k].live
        THEN [waits[k] EXCEPT !.live = FALSE, !.frozen = S.executors[id]]
        ELSE waits[k]]

\* A pending watch on one of the tasks `tids` of session `ssn_id` keeps the
\* task the map held so far.
FreezeWatches(S, ssn_id, tids) ==
    [k \in DOMAIN watches |->
        IF watches[k].pc = "pending" /\ watches[k].ssn_id = ssn_id
           /\ watches[k].task_id \in tids /\ watches[k].live
        THEN [watches[k] EXCEPT !.live = FALSE,
                                !.frozen = S.sessions[ssn_id].tasks[watches[k].task_id]]
        ELSE watches[k]]

----------------------------------------------------------------------------
\* Frontend::watch_task: no call in flight.
IdleFrontend == [pc |-> "idle", ret |-> "None"]

\* No complete_task call is between two of its blocks.
NotCompleting ==
    [pc |-> "idle", id |-> None, ssn_id |-> None, task_id |-> None,
     task_output |-> None, locks |-> {}]

\* A thread outside any Storage call.
IdleThread == [op |-> "none", todo |-> << >>, held |-> << >>]
NoCall == [op |-> "none", ssn_id |-> None, task_id |-> None]
\* The executor process before it has registered: its local Executor (state,
\* session, shim, task), the `ssn` IdleState::execute holds, the calls of the
\* execute in progress and the call an error came from.
NewProcess ==
    [pc |-> "new", state |-> "Idle", session |-> None, shim |-> FALSE, task |-> None,
     ssn |-> None, trace |-> << >>, failed |-> "None"]

----------------------------------------------------------------------------
\* The state machine. The actions take the executor ids `Es` and the session
\* ids `Ss` the callers use.

Init ==
    /\ sessions = << >>
    /\ executors = << >>
    /\ engine = NewEngine
    /\ closed = {}
    /\ waits = [k \in 1..MaxWait |-> IdleWait]
    /\ watches = [k \in 1..MaxWatch |-> IdleWatch]
    /\ frontend = IdleFrontend
    /\ completing = NotCompleting
    /\ threads = [th \in 1..MaxThread |-> IdleThread]
    /\ calls = [c \in 1..MaxCall |-> NoCall]
    /\ process = NewProcess

\* The store after a call.
Apply(r) ==
    /\ sessions' = r.sessions
    /\ executors' = r.executors
    /\ engine' = r.engine

CreateSession(Ss) ==
    /\ engine.next_id \in Ss
    /\ Apply(Storage_create_session(Store))
    /\ UNCHANGED <<closed, waits, watches, frontend, completing, threads, calls, process>>

CloseSession(Ss) ==
    \E id \in Ss :
        LET r == Storage_close_session(Store, id)
        IN  /\ Apply(r)
            /\ closed' = IF r.ret = "Ok" THEN closed \cup {id} ELSE closed
            /\ UNCHANGED <<waits, watches, frontend, completing, threads, calls, process>>

DeleteSession(Ss) ==
    \E id \in Ss :
        /\ Apply(Storage_delete_session(Store, id))
        /\ UNCHANGED <<closed, waits, watches, frontend, completing, threads, calls, process>>

CreateTask(Ss) ==
    \E ssn_id \in Ss :
        /\ ssn_id \in DOMAIN engine.ssns =>
                Cardinality(DOMAIN engine.ssns[ssn_id].tasks) < MaxTask
        /\ Apply(Storage_create_task(Store, ssn_id))
        /\ UNCHANGED <<closed, waits, watches, frontend, completing, threads, calls, process>>

RegisterExecutor(Es) ==
    \E id \in Es, state \in {"Idle", "Unknown"} :
        /\ Apply(Storage_register_executor(Store, id, state))
        /\ waits' = IF id \in DOMAIN executors THEN FreezeWaits(Store, id) ELSE waits
        /\ UNCHANGED <<closed, watches, frontend, completing, threads, calls, process>>

BindSession(Es, Ss) ==
    \E id \in Es, ssn_id \in Ss :
        /\ Apply(Storage_bind_session(Store, id, ssn_id))
        /\ UNCHANGED <<closed, waits, watches, frontend, completing, threads, calls, process>>

BindSessionCompleted(Es) ==
    \E id \in Es :
        /\ Apply(Storage_bind_session_completed(Store, id))
        /\ UNCHANGED <<closed, waits, watches, frontend, completing, threads, calls, process>>

LaunchTask(Es) ==
    \E id \in Es :
        \E pick \in Picks(Store, id) :
            LET r == Storage_launch_task(Store, id, pick)
            IN  /\ Apply(r)
                /\ watches' = IF r.replaced = {} THEN watches
                              ELSE FreezeWatches(Store, executors[id].ssn_id, r.replaced)
                /\ UNCHANGED <<closed, waits, frontend, completing, threads, calls, process>>

CompleteTask(Es) ==
    \E id \in Es, task_output \in TaskOutputs :
        /\ Apply(Storage_complete_task(Store, id, task_output))
        /\ UNCHANGED <<closed, waits, watches, frontend, completing, threads, calls, process>>

UnbindExecutor(Es) ==
    \E id \in Es :
        /\ Apply(Storage_unbind_executor(Store, id))
        /\ UNCHANGED <<closed, waits, watches, frontend, completing, threads, calls, process>>

UnbindExecutorCompleted(Es) ==
    \E id \in Es :
        /\ Apply(Storage_unbind_executor_completed(Store, id))
        /\ UNCHANGED <<closed, waits, watches, frontend, completing, threads, calls, process>>

\* wait_for_session is called: the executor is looked up and the future is
\* polled for the first time.
WaitForSession(Es) ==
    \E k \in DOMAIN waits, id \in Es :
        /\ waits[k].pc = "idle"
        /\ waits' = [waits EXCEPT ![k] = Storage_wait_for_session(Store, id)]
        /\ UNCHANGED <<sessions, executors, engine, closed, watches, frontend, completing, threads, calls, process>>

\* The runtime polls a pending wait again.
WaitPoll ==
    \E k \in DOMAIN waits :
        /\ waits[k].pc = "pending"
        /\ waits' = [waits EXCEPT ![k] = WaitForSsnFuture_poll(Store, waits[k])]
        /\ UNCHANGED <<sessions, executors, engine, closed, watches, frontend, completing, threads, calls, process>>

\* The caller takes the result, or drops the pending future.
WaitDrop ==
    \E k \in DOMAIN waits :
        /\ waits[k].pc # "idle"
        /\ waits' = [waits EXCEPT ![k] = IdleWait]
        /\ UNCHANGED <<sessions, executors, engine, closed, watches, frontend, completing, threads, calls, process>>

WatchTask(Ss) ==
    \E k \in DOMAIN watches, ssn_id \in Ss, task_id \in TaskIDs :
        /\ watches[k].pc = "idle"
        /\ watches' = [watches EXCEPT ![k] = Storage_watch_task(Store, ssn_id, task_id)]
        /\ UNCHANGED <<sessions, executors, engine, closed, waits, frontend, completing, threads, calls, process>>

WatchPollOf(k) ==
    /\ watches[k].pc = "pending"
    /\ watches' = [watches EXCEPT ![k] = WatchTaskFuture_poll(Store, watches[k])]
    /\ UNCHANGED <<sessions, executors, engine, closed, waits, frontend, completing, threads, calls, process>>

WatchPoll == \E k \in DOMAIN watches : WatchPollOf(k)

WatchDrop ==
    \E k \in DOMAIN watches :
        /\ watches[k].pc # "idle"
        /\ watches' = [watches EXCEPT ![k] = IdleWatch]
        /\ UNCHANGED <<sessions, executors, engine, closed, waits, frontend, completing, threads, calls, process>>

SessionVerbs(Ss) ==
    \/ CreateSession(Ss)
    \/ CloseSession(Ss)
    \/ DeleteSession(Ss)

ExecutorVerbs(Es, Ss) ==
    \/ RegisterExecutor(Es)
    \/ BindSession(Es, Ss)
    \/ BindSessionCompleted(Es)
    \/ UnbindExecutor(Es)
    \/ UnbindExecutorCompleted(Es)

TaskVerbs(Es, Ss) ==
    \/ CreateTask(Ss)
    \/ LaunchTask(Es)
    \/ CompleteTask(Es)

\* Every Storage call, by any caller, in any order.
Next ==
    \/ SessionVerbs(SessionIDs)
    \/ ExecutorVerbs(ExecutorIDs, SessionIDs)
    \/ TaskVerbs(ExecutorIDs, SessionIDs)

Spec == Init /\ [][Next]_vars

\* The calls that bear on an executor's session, with wait_for_session calls
\* in flight.
NextWait ==
    \/ SessionVerbs(SessionIDs)
    \/ ExecutorVerbs(ExecutorIDs, SessionIDs)
    \/ WaitForSession(ExecutorIDs)
    \/ WaitPoll
    \/ WaitDrop

SpecWait == Init /\ [][NextWait]_vars

\* Frontend::watch_task: the request is parsed and the loop makes its first
\* Storage::watch_task call. The call in flight is watches[FrontendWatch].
FrontendWatch == 1

Frontend_watch_task(Ss) ==
    \E ssn_id \in Ss, task_id \in TaskIDs :
        /\ frontend.pc = "idle"
        /\ watches[FrontendWatch].pc = "idle"
        /\ watches' = [watches EXCEPT
                ![FrontendWatch] = Storage_watch_task(Store, ssn_id, task_id)]
        /\ frontend' = [pc |-> "watching", ret |-> "None"]
        /\ UNCHANGED <<sessions, executors, engine, closed, waits, completing, threads, calls, process>>

\* One turn of the loop, once Storage::watch_task has returned: `?` ends the
\* RPC with the error's status; a completed task breaks out of the loop, into
\* the todo!() that follows it; any other task is watched again.
Frontend_watch_task_loop ==
    LET w == watches[FrontendWatch]
    IN  /\ frontend.pc = "watching"
        /\ w.pc = "done"
        /\ IF w.ret # "Ok"
           THEN /\ frontend' = [pc |-> "done", ret |-> "not_found"]
                /\ watches' = [watches EXCEPT ![FrontendWatch] = IdleWatch]
           ELSE IF is_completed(w.val)
           THEN /\ frontend' = [pc |-> "done", ret |-> "panic"]
                /\ watches' = [watches EXCEPT ![FrontendWatch] = IdleWatch]
           ELSE /\ frontend' = frontend
                /\ watches' = [watches EXCEPT
                        ![FrontendWatch] = Storage_watch_task(Store, w.ssn_id, w.task_id)]
        /\ UNCHANGED <<sessions, executors, engine, closed, waits, completing, threads, calls, process>>

\* The RPC is over; the next request may come.
Frontend_watch_task_end ==
    /\ frontend.pc = "done"
    /\ frontend' = IdleFrontend
    /\ UNCHANGED <<sessions, executors, engine, closed, waits, watches, completing, threads, calls, process>>

\* Every Storage call on the watched sessions, with a watch_task RPC in flight.
NextFrontend ==
    \/ SessionVerbs(1..WatchSsn)
    \/ ExecutorVerbs(1..WatchExec, 1..WatchSsn)
    \/ TaskVerbs(1..WatchExec, 1..WatchSsn)
    \/ Frontend_watch_task(1..WatchSsn)
    \/ WatchPoll
    \/ Frontend_watch_task_loop
    \/ Frontend_watch_task_end

SpecFrontend == Init /\ [][NextFrontend]_vars

\* Storage::complete_task on an Unbinding executor, up to its handler's first
\* block: the checks, then e.task_id = None under the executor's lock, which
\* the end of the block releases.
CompleteTask_clear(Es) ==
    \E id \in Es, task_output \in TaskOutputs :
        /\ completing.pc = "idle"
        /\ Storage_complete_task(Store, id, task_output).ret = "Ok"
        /\ executors[id].state = "Unbinding"
        /\ executors' = [executors EXCEPT ![id].task_id = None]
        /\ completing' = [pc |-> "cleared", id |-> id,
                          ssn_id |-> executors[id].ssn_id,
                          task_id |-> executors[id].task_id,
                          task_output |-> task_output, locks |-> {}]
        /\ UNCHANGED <<sessions, engine, closed, waits, watches, frontend, threads, calls, process>>

\* The second block: task.output = task_output under the task's lock. The
\* task is the one the call looked up; it is in the cache unless its session
\* has been deleted meanwhile.
CompleteTask_output ==
    LET c == completing
    IN  /\ c.pc = "cleared"
        /\ sessions' = IF Storage_get_task_ptr(Store, c.ssn_id, c.task_id) = "Ok"
                       THEN [sessions EXCEPT
                                ![c.ssn_id].tasks[c.task_id].output = c.task_output]
                       ELSE sessions
        /\ completing' = [c EXCEPT !.pc = "written", !.locks = {}]
        /\ UNCHANGED <<executors, engine, closed, waits, watches, frontend, threads, calls, process>>

\* The third block: ssn.update_task_state(task_ptr, Succeed) under the
\* session's lock.
CompleteTask_succeed ==
    LET c == completing
    IN  /\ c.pc = "written"
        /\ sessions' = IF Storage_get_task_ptr(Store, c.ssn_id, c.task_id) = "Ok"
                       THEN [sessions EXCEPT ![c.ssn_id] =
                                Session_update_task_state(@, c.task_id, "Succeed")]
                       ELSE sessions
        /\ completing' = NotCompleting
        /\ UNCHANGED <<executors, engine, closed, waits, watches, frontend, threads, calls, process>>

\* Every Storage call on one executor and one session, with one complete_task
\* call running block by block beside them.
NextBlocks ==
    \/ SessionVerbs(1..WatchSsn)
    \/ ExecutorVerbs(1..WatchExec, 1..WatchSsn)
    \/ TaskVerbs(1..WatchExec, 1..WatchSsn)
    \/ CompleteTask_clear(1..WatchExec)
    \/ CompleteTask_output
    \/ CompleteTask_succeed

SpecBlocks == Init /\ [][NextBlocks]_vars

----------------------------------------------------------------------------
\* The locks. Each Storage call is the sequence of lock_ptr! acquisitions and
\* guard drops it makes when it finds its records (an error return drops the
\* guards it holds and ends the sequence early).

ExecutorsMap == <<"executors", None, None>>
ExecutorLock(id) == <<"executor", id, None>>
SessionsMap == <<"sessions", None, None>>
SessionLock(ssn_id) == <<"session", ssn_id, None>>
TaskLock(ssn_id, task_id) == <<"task", ssn_id, task_id>>

Lock(l) == <<[a |-> "lock", l |-> l]>>
Unlock(l) == <<[a |-> "unlock", l |-> l]>>

Storage_get_session_ptr_locks(id) == Lock(SessionsMap) \o Unlock(SessionsMap)

\* Faulty variant: the session is locked before the sessions map.
Storage_get_task_ptr_locks_session_first(ssn_id, task_id) ==
    Lock(SessionLock(ssn_id)) \o Lock(SessionsMap)
        \o Unlock(SessionsMap) \o Unlock(SessionLock(ssn_id))

Storage_get_task_ptr_locks(ssn_id, task_id) ==
    Lock(SessionsMap) \o Lock(SessionLock(ssn_id))
        \o Unlock(SessionLock(ssn_id)) \o Unlock(SessionsMap)

Storage_get_executor_ptr_locks(id) == Lock(ExecutorsMap) \o Unlock(ExecutorsMap)

ReadSession(ssn_id) == Lock(SessionLock(ssn_id)) \o Unlock(SessionLock(ssn_id))
ReadExecutor(id) == Lock(ExecutorLock(id)) \o Unlock(ExecutorLock(id))
ReadTask(ssn_id, task_id) ==
    Lock(TaskLock(ssn_id, task_id)) \o Unlock(TaskLock(ssn_id, task_id))

\* for ssn in ssn_map.values(): each session is locked and released in turn.
RECURSIVE ReadSessions(_)
ReadSessions(n) == IF n = 0 THEN << >> ELSE ReadSessions(n - 1) \o ReadSession(n)

\* for exe in exe_map.values(): each executor is locked and released in turn.
RECURSIVE ReadExecutors(_)
ReadExecutors(n) == IF n = 0 THEN << >> ELSE ReadExecutors(n - 1) \o ReadExecutor(n)

Storage_snapshot_locks ==
    Lock(SessionsMap) \o ReadSessions(MaxSsn) \o Unlock(SessionsMap)
        \o Lock(ExecutorsMap) \o ReadExecutors(MaxExec) \o Unlock(ExecutorsMap)

Storage_create_session_locks == Lock(SessionsMap) \o Unlock(SessionsMap)

Storage_close_session_locks(id) == Storage_get_session_ptr_locks(id) \o ReadSession(id)

Storage_get_session_locks(id) == Storage_get_session_ptr_locks(id) \o ReadSession(id)

Storage_delete_session_locks(id) == Lock(SessionsMap) \o Unlock(SessionsMap)

Storage_list_session_locks ==
    Lock(SessionsMap) \o ReadSessions(MaxSsn) \o Unlock(SessionsMap)

Storage_create_task_locks(ssn_id) ==
    Storage_get_session_ptr_locks(ssn_id) \o ReadSession(ssn_id)

Storage_get_task_locks(ssn_id, id) ==
    Lock(SessionsMap) \o Lock(SessionLock(ssn_id)) \o Lock(TaskLock(ssn_id, id))
        \o Unlock(TaskLock(ssn_id, id)) \o Unlock(SessionLock(ssn_id))
        \o Unlock(SessionsMap)

Storage_update_task_state_locks(ssn_id, task_id) ==
    ReadSession(ssn_id) \o ReadTask(ssn_id, task_id) \o ReadSession(ssn_id)

WatchTaskFuture_new_locks(ssn_id, task_id) == ReadTask(ssn_id, task_id)

WatchTaskFuture_poll_locks(ssn_id, task_id) ==
    Storage_get_task_ptr_locks(ssn_id, task_id) \o ReadTask(ssn_id, task_id)

Storage_watch_task_locks(ssn_id, task_id) ==
    Storage_get_task_ptr_locks(ssn_id, task_id)
        \o WatchTaskFuture_new_locks(ssn_id, task_id)
        \o WatchTaskFuture_poll_locks(ssn_id, task_id)
        \o ReadTask(ssn_id, task_id)

Storage_register_executor_locks(id) == Lock(ExecutorsMap) \o Unlock(ExecutorsMap)

WaitForSsnFuture_poll_locks(id) == ReadExecutor(id)

Storage_wait_for_session_locks(id, ssn_id) ==
    Storage_get_executor_ptr_locks(id) \o WaitForSsnFuture_poll_locks(id)
        \o Storage_get_session_ptr_locks(ssn_id) \o ReadSession(ssn_id)

\* states::from reads the executor's state.
states_from_locks(id) == ReadExecutor(id)

\* Session::update_task_state, called with the session's lock held, writes
\* the task's state.
Session_update_task_state_locks(ssn_id, task_id) == ReadTask(ssn_id, task_id)

UnbindingState_unbind_executor_locks(id) == ReadExecutor(id)

UnbindingState_unbind_executor_completed_locks(id) == ReadExecutor(id)

UnbindingState_complete_task_locks(id, ssn_id, task_id) ==
    ReadExecutor(id) \o ReadTask(ssn_id, task_id)
        \o Lock(SessionLock(ssn_id))
        \o Session_update_task_state_locks(ssn_id, task_id)
        \o Unlock(SessionLock(ssn_id))

\* Storage::launch_task with a task in flight (the task is returned again),
\* and without one on an Unbinding executor (the handler takes no lock).
Storage_launch_task_locks(id, ssn_id, task_id) ==
    Storage_get_executor_ptr_locks(id) \o states_from_locks(id) \o ReadExecutor(id)
        \o (IF task_id # None
            THEN Storage_get_task_ptr_locks(ssn_id, task_id) \o ReadTask(ssn_id, task_id)
            ELSE Storage_get_session_ptr_locks(ssn_id))

Storage_complete_task_locks(id, ssn_id, task_id) ==
    Storage_get_executor_ptr_locks(id) \o ReadExecutor(id)
        \o Storage_get_task_ptr_locks(ssn_id, task_id)
        \o Storage_get_session_ptr_locks(ssn_id)
        \o states_from_locks(id)
        \o UnbindingState_complete_task_locks(id, ssn_id, task_id)

Storage_unbind_executor_locks(id) ==
    Storage_get_executor_ptr_locks(id) \o states_from_locks(id)
        \o UnbindingState_unbind_executor_locks(id)

Storage_unbind_executor_completed_locks(id) ==
    Storage_get_executor_ptr_locks(id) \o states_from_locks(id)
        \o UnbindingState_unbind_executor_completed_locks(id)

\* The calls a thread may make, each with the locks it takes.
Calls ==
    {[op |-> "snapshot", todo |-> Storage_snapshot_locks],
     [op |-> "create_session", todo |-> Storage_create_session_locks],
     [op |-> "list_session", todo |-> Storage_list_session_locks]}
    \cup {[op |-> "close_session", todo |-> Storage_close_session_locks(s)] :
            s \in 1..WatchSsn}
    \cup {[op |-> "get_session", todo |-> Storage_get_session_locks(s)] :
            s \in 1..WatchSsn}
    \cup {[op |-> "delete_session", todo |-> Storage_delete_session_locks(s)] :
            s \in 1..WatchSsn}
    \cup {[op |-> "create_task", todo |-> Storage_create_task_locks(s)] :
            s \in 1..WatchSsn}
    \cup {[op |-> "get_task", todo |-> Storage_get_task_locks(s, 1)] :
            s \in 1..WatchSsn}
    \cup {[op |-> "update_task_state", todo |-> Storage_update_task_state_locks(s, 1)] :
            s \in 1..WatchSsn}
    \cup {[op |-> "watch_task", todo |-> Storage_watch_task_locks(s, 1)] :
            s \in 1..WatchSsn}
    \cup {[op |-> "register_executor", todo |-> Storage_register_executor_locks(e)] :
            e \in 1..WatchExec}
    \cup {[op |-> "wait_for_session", todo |-> Storage_wait_for_session_locks(e, s)] :
            e \in 1..WatchExec, s \in 1..WatchSsn}
    \cup {[op |-> "launch_task", todo |-> Storage_launch_task_locks(e, s, t)] :
            e \in 1..WatchExec, s \in 1..WatchSsn, t \in {None, 1}}
    \cup {[op |-> "complete_task", todo |-> Storage_complete_task_locks(e, s, 1)] :
            e \in 1..WatchExec, s \in 1..WatchSsn}
    \cup {[op |-> "unbind_executor", todo |-> Storage_unbind_executor_locks(e)] :
            e \in 1..WatchExec}
    \cup {[op |-> "unbind_executor_completed",
           todo |-> Storage_unbind_executor_completed_locks(e)] :
            e \in 1..WatchExec}

\* The locks thread `th` holds.
Held(th) == {threads[th].held[i] : i \in DOMAIN threads[th].held}

\* Thread `th` is at a lock_ptr! of a mutex some thread holds.
Blocked(th) ==
    /\ threads[th].todo # << >>
    /\ Head(threads[th].todo).a = "lock"
    /\ \E o \in DOMAIN threads : Head(threads[th].todo).l \in Held(o)

\* A thread that is in no call starts one.
ThreadCall ==
    \E th \in DOMAIN threads, c \in Calls :
        /\ threads[th].todo = << >>
        /\ threads' = [threads EXCEPT ![th] = [op |-> c.op, todo |-> c.todo, held |-> << >>]]
        /\ UNCHANGED <<sessions, executors, engine, closed, waits, watches, frontend, completing, calls, process>>

\* lock_ptr!: the thread takes a mutex nobody holds.
ThreadLock ==
    \E th \in DOMAIN threads :
        /\ threads[th].todo # << >>
        /\ Head(threads[th].todo).a = "lock"
        /\ ~Blocked(th)
        /\ threads' = [threads EXCEPT
                ![th].held = Append(@, Head(threads[th].todo).l),
                ![th].todo = Tail(@)]
        /\ UNCHANGED <<sessions, executors, engine, closed, waits, watches, frontend, completing, calls, process>>

\* A guard goes out of scope.
ThreadUnlock ==
    \E th \in DOMAIN threads :
        /\ threads[th].todo # << >>
        /\ Head(threads[th].todo).a = "unlock"
        /\ threads' = [threads EXCEPT
                ![th].held = SelectSeq(@, LAMBDA l : l # Head(threads[th].todo).l),
                ![th].todo = Tail(@)]
        /\ UNCHANGED <<sessions, executors, engine, closed, waits, watches, frontend, completing, calls, process>>

NextLocks ==
    \/ ThreadCall
    \/ ThreadLock
    \/ ThreadUnlock

SpecLocks == Init /\ [][NextLocks]_vars

\* An executor deregisters; a pending wait keeps the record it was built from.
UnregisterExecutor(Es) ==
    \E id \in Es :
        /\ Apply(Storage_unregister_executor(Store, id))
        /\ waits' = IF id \in DOMAIN executors THEN FreezeWaits(Store, id) ELSE waits
        /\ UNCHANGED <<closed, watches, frontend, completing, threads, calls, process>>

\* The calls of NextWait, with executors that deregister.
NextUnregister ==
    \/ NextWait
    \/ UnregisterExecutor(ExecutorIDs)

SpecUnregister == Init /\ [][NextUnregister]_vars

\* Every Storage call on the watched sessions, with watch_task calls in flight.
NextWatch ==
    \/ SessionVerbs(1..WatchSsn)
    \/ ExecutorVerbs(1..WatchExec, 1..WatchSsn)
    \/ TaskVerbs(1..WatchExec, 1..WatchSsn)
    \/ WatchTask(1..WatchSsn)
    \/ WatchPoll
    \/ WatchDrop

SpecWatch == Init /\ [][NextWatch]_vars

\* A pending future wakes its own waker, so the runtime polls it again.
SpecWatchFair == SpecWatch /\ \A k \in 1..MaxWatch : WF_vars(WatchPollOf(k))

----------------------------------------------------------------------------
\* C1 as stated: in every reachable state an executor is Bound if and only
\* if its ssn_id is Some.
C1_BoundIffSsn ==
    \A id \in DOMAIN executors :
        (executors[id].state = "Bound") <=> (executors[id].ssn_id # None)

\* C1 amended: a Bound executor has a session, and an executor has a session
\* exactly while it is Binding, Bound or Unbinding.
C1_SsnIffAttached ==
    \A id \in DOMAIN executors :
        /\ executors[id].state = "Bound" => executors[id].ssn_id # None
        /\ (executors[id].ssn_id # None) <=>
                (executors[id].state \in {"Binding", "Bound", "Unbinding"})

\* One executor is Binding and another Unbinding, both with a session.
C1_Witness ==
    \E a, b \in DOMAIN executors :
        /\ executors[a].state = "Binding" /\ executors[a].ssn_id # None
        /\ executors[b].state = "Unbinding" /\ executors[b].ssn_id # None

C3_TaskImpliesBound ==
    \A id \in DOMAIN executors :
        executors[id].task_id # None =>
            executors[id].state = "Bound" /\ executors[id].ssn_id # None

\* C3 amended: an executor with a task is Bound or Unbinding and has a session.
C3_TaskImpliesBoundOrUnbinding ==
    \A id \in DOMAIN executors :
        executors[id].task_id # None =>
            executors[id].state \in {"Bound", "Unbinding"} /\ executors[id].ssn_id # None

\* unbind_executor was called on a Bound executor with a task in flight.
C3_Witness ==
    \E id \in DOMAIN executors :
        /\ executors[id].state = "Unbinding"
        /\ executors[id].task_id # None
        /\ executors[id].ssn_id \in DOMAIN sessions
        /\ executors[id].task_id \in sessions[executors[id].ssn_id].tasks_by_state["Running"]

C5_CompleteTaskOnce ==
    \A id \in DOMAIN executors : \A out \in TaskOutputs :
        LET e == executors[id]
            r == Storage_complete_task(Store, id, out)
        IN  /\ (e.task_id # None /\ Storage_get_task_ptr(Store, e.ssn_id, e.task_id) = "Ok") =>
                /\ r.ret = "Ok"
                /\ r.sessions[e.ssn_id].tasks[e.task_id].output = out
                /\ r.sessions[e.ssn_id].tasks[e.task_id].state = "Succeed"
                /\ r.executors[id].task_id = None
                /\ \A out2 \in TaskOutputs :
                        LET r2 == Storage_complete_task(StoreOf(r), id, out2)
                        IN  r2.ret = "InvalidState" /\ StoreOf(r2) = StoreOf(r)
            /\ e.task_id = None => (r.ret = "InvalidState" /\ StoreOf(r) = Store)

\* An executor has completed its task with an output and holds no task.
C5_Witness ==
    \E id \in DOMAIN executors :
        /\ executors[id].state \in {"Bound", "Unbinding"}
        /\ executors[id].task_id = None
        /\ executors[id].ssn_id \in DOMAIN sessions
        /\ \E t \in DOMAIN sessions[executors[id].ssn_id].tasks :
                /\ sessions[executors[id].ssn_id].tasks[t].state = "Succeed"
                /\ sessions[executors[id].ssn_id].tasks[t].output # None

\* The task state changes of I6.
TaskEdges ==
    {<<"Pending", "Running">>, <<"Running", "Succeed">>, <<"Running", "Failed">>,
     <<"Running", "Aborting">>, <<"Aborting", "Aborted">>}

C7_UnbindsToIdle(S, id) ==
    LET b == Storage_unbind_executor(S, id)
        c == Storage_unbind_executor_completed(StoreOf(b), id)
    IN  /\ b.ret = "Ok"
        /\ c.ret = "Ok"
        /\ c.executors[id] = NewExecutor("Idle")

\* C7: for an Idle executor e and a session s in the store, bind_session(e, s),
\* unbind_executor(e), unbind_executor_completed(e) each return Ok and leave e
\* Idle with no session and no task; so do they when bind_session_completed,
\* launch_task and complete_task come before unbind_executor (complete_task
\* when launch_task handed out a task).
C7_BindUnbindRoundTrip ==
    \A id \in DOMAIN executors : \A s \in DOMAIN sessions :
        executors[id].state = "Idle" =>
            LET a == Storage_bind_session(Store, id, s)
                a2 == Storage_bind_session_completed(StoreOf(a), id)
            IN  /\ a.ret = "Ok"
                /\ C7_UnbindsToIdle(StoreOf(a), id)
                /\ a2.ret = "Ok"
                /\ C7_UnbindsToIdle(StoreOf(a2), id)
                /\ \A pick \in Picks(StoreOf(a2), id) :
                        LET l == Storage_launch_task(StoreOf(a2), id, pick)
                        IN  /\ l.ret = "Ok"
                            /\ C7_UnbindsToIdle(StoreOf(l), id)
                            /\ pick # None =>
                                \A out \in TaskOutputs :
                                    LET k == Storage_complete_task(StoreOf(l), id, out)
                                    IN  k.ret = "Ok" /\ C7_UnbindsToIdle(StoreOf(k), id)

\* An executor is Idle (again: a task of the session has been completed) and
\* the session has a Pending task to launch.
C7_Witness ==
    \E id \in DOMAIN executors : \E s \in DOMAIN sessions :
        /\ executors[id].state = "Idle"
        /\ \A x \in DOMAIN executors : executors[x].ssn_id = None
        /\ sessions[s].tasks_by_state["Pending"] # {}
        /\ sessions[s].tasks_by_state["Succeed"] # {}

\* The result of verb `v` on executor `id` (with session `s`, Pending task
\* `pick` and output `out` where the verb takes one).
C8_Call(v, id, s, pick, out) ==
    CASE v = "bind_session" -> Storage_bind_session(Store, id, s)
      [] v = "bind_session_completed" -> Storage_bind_session_completed(Store, id)
      [] v = "launch_task" -> Storage_launch_task(Store, id, pick)
      [] v = "complete_task" -> Storage_complete_task(Store, id, out)
      [] v = "unbind_executor" -> Storage_unbind_executor(Store, id)
      [] v = "unbind_executor_completed" -> Storage_unbind_executor_completed(Store, id)

C8_AllVerbs ==
    {"bind_session", "bind_session_completed", "launch_task", "complete_task",
     "unbind_executor", "unbind_executor_completed"}

\* The verbs the transition table has a row for, by state.
C8_Rows ==
    [st \in ExecutorStates |->
        CASE st = "Idle" -> {"bind_session"}
          [] st = "Binding" -> {"bind_session_completed", "unbind_executor"}
          [] st = "Bound" -> {"launch_task", "complete_task", "unbind_executor"}
          [] st = "Unbinding" -> {"complete_task", "unbind_executor_completed"}
          [] st = "Unknown" -> {}]

\* C8: a verb with no row in the transition table for the executor's state
\* returns InvalidState and leaves executors, sessions and tasks unchanged.
C8_NoRowRejects ==
    \A id \in DOMAIN executors : \A v \in C8_AllVerbs \ C8_Rows[executors[id].state] :
        \A s \in DOMAIN sessions : \A pick \in Picks(Store, id) : \A out \in TaskOutputs :
            LET r == C8_Call(v, id, s, pick, out)
            IN  r.ret = "InvalidState" /\ StoreOf(r) = Store

\* C9: a wait_for_session(e) on a registered executor is pending while
\* e.ssn_id is None; it resolves only when e.ssn_id is set, with the session
\* whose id is e.ssn_id; and a poll made once bind_session(e, s) has set
\* e.ssn_id resolves it (e being the executor stored under the id).
C9_WaitResolvesWithSession ==
    /\ [][\A k \in DOMAIN waits :
            (waits[k].pc = "pending" /\ waits'[k].pc = "done") =>
                /\ executors[waits'[k].id].ssn_id # None
                /\ waits'[k].ret = "Ok"
                /\ waits'[k].val = executors[waits'[k].id].ssn_id]_vars
    /\ [](\A k \in DOMAIN waits :
            (waits[k].pc = "pending" /\ executors[waits[k].id].ssn_id # None) =>
                WaitForSsnFuture_poll(Store, waits[k]).pc = "done")

\* C10: watch_task(s, t) on a task of the store returns at once when t is
\* Succeed, Failed or Aborted; otherwise it is pending, a poll leaves it
\* pending while t's state is the one captured at the start, and a poll after
\* a state change of t resolves it and returns t with its new state.
C10_WatchReturnsNewState ==
    /\ [][\A k \in DOMAIN watches :
            LET w == watches[k]
                v == watches'[k]
                found == Storage_get_task_ptr(Store, v.ssn_id, v.task_id) = "Ok"
                t == sessions[v.ssn_id].tasks[v.task_id]
            IN  /\ (w.pc = "idle" /\ v.pc # "idle" /\ found) =>
                        IF is_completed(t)
                        THEN v.pc = "done" /\ v.ret = "Ok" /\ v.val = t
                        ELSE v.pc = "pending" /\ v.current_state = t.state
                /\ (w.pc = "pending" /\ v.pc = "done" /\ found) =>
                        /\ t.state # w.current_state
                        /\ v.ret = "Ok"
                        /\ v.val = t]_vars
    /\ [](\A k \in DOMAIN watches :
            LET w == watches[k]
            IN  (w.pc = "pending"
                 /\ Storage_get_task_ptr(Store, w.ssn_id, w.task_id) = "Ok") =>
                    (WatchTaskFuture_poll(Store, w).pc = "done"
                        <=> sessions[w.ssn_id].tasks[w.task_id].state # w.current_state))

\* C11: launch_task(e) on a Bound executor e with no task in flight, whose
\* session is in the store: with a Pending task in the session, the call
\* returns one of them, which leaves the Pending bucket, is Running and is
\* e.task_id, nothing else changing; with none, it returns None and changes
\* nothing. e stays Bound in both cases.
C11_LaunchTaskPopsOne ==
    \A id \in DOMAIN executors :
        LET e == executors[id]
            s == e.ssn_id
        IN  (e.state = "Bound" /\ e.task_id = None /\ s \in DOMAIN sessions) =>
                \A pick \in Picks(Store, id) :
                    LET r == Storage_launch_task(Store, id, pick)
                        pending == sessions[s].tasks_by_state["Pending"]
                    IN  IF pending = {}
                        THEN r.ret = "Ok" /\ r.val = None /\ StoreOf(r) = Store
                        ELSE /\ r.ret = "Ok"
                             /\ r.val \in pending
                             /\ r.executors = [executors EXCEPT ![id].task_id = r.val]
                             /\ DOMAIN r.sessions = DOMAIN sessions
                             /\ \A x \in DOMAIN sessions \ {s} : r.sessions[x] = sessions[x]
                             /\ r.sessions[s].state = sessions[s].state
                             /\ r.sessions[s].tasks =
                                    [sessions[s].tasks EXCEPT ![r.val].state = "Running"]
                             /\ r.sessions[s].tasks_by_state =
                                    [sessions[s].tasks_by_state EXCEPT
                                        !["Pending"] = @ \ {r.val},
                                        !["Running"] = @ \cup {r.val}]

\* A Bound executor holds a Running task launch_task handed out, and the
\* session has a Pending task left for the next call.
C11_Witness ==
    \E id \in DOMAIN executors :
        LET e == executors[id]
        IN  /\ e.state = "Bound" /\ e.task_id # None /\ e.ssn_id \in DOMAIN sessions
            /\ e.task_id \in sessions[e.ssn_id].tasks_by_state["Running"]
            /\ sessions[e.ssn_id].tasks_by_state["Pending"] # {}
            /\ \E x \in DOMAIN executors :
                    /\ executors[x].state = "Bound" /\ executors[x].task_id = None
                    /\ executors[x].ssn_id = e.ssn_id

C13_CloseSessionFlipsState ==
    /\ \A id \in SessionIDs :
            LET r == Storage_close_session(Store, id)
            IN  IF id \in DOMAIN sessions
                THEN /\ r.ret = "Ok"
                     /\ r.sessions = [sessions EXCEPT ![id].state = "Closed"]
                     /\ r.executors = executors
                ELSE r.ret = "NotFound" /\ StoreOf(r) = Store
    /\ \A id \in closed \cap DOMAIN sessions : sessions[id].state = "Closed"
    /\ \A e \in DOMAIN executors :
            LET s == executors[e].ssn_id
                t == executors[e].task_id
            IN  (s \in DOMAIN sessions /\ sessions[s].state = "Closed" /\ t # None
                 /\ executors[e].state \in {"Bound", "Unbinding"}) =>
                    \A out \in TaskOutputs :
                        LET k == Storage_complete_task(Store, e, out)
                        IN  /\ k.ret = "Ok"
                            /\ k.sessions[s].state = "Closed"
                            /\ k.sessions[s].tasks[t] = [state |-> "Succeed", output |-> out]

\* A session was closed while an executor had a task of it in flight, and
\* another task of it has been completed.
C13_Witness ==
    \E s \in closed \cap DOMAIN sessions : \E e \in DOMAIN executors :
        /\ sessions[s].state = "Closed"
        /\ executors[e].ssn_id = s
        /\ executors[e].task_id \in sessions[s].tasks_by_state["Running"]
        /\ sessions[s].tasks_by_state["Succeed"] # {}

\* C14: delete_session(id) on a session of the store returns Ok, and in the
\* store it leaves get_session(id) and get_task(id, t), for every t, fail with
\* NotFound, list_session does not list id, and every other session is as it
\* was.
C14_DeleteSessionEvicts ==
    \A id \in DOMAIN sessions :
        LET r == Storage_delete_session(Store, id)
            D == StoreOf(r)
        IN  /\ r.ret = "Ok"
            /\ Storage_get_session(D, id).ret = "NotFound"
            /\ \A t \in TaskIDs : Storage_get_task(D, id, t).ret = "NotFound"
            /\ id \notin Storage_list_session(D).val
            /\ Storage_list_session(D).val = DOMAIN sessions \ {id}
            /\ \A x \in DOMAIN sessions \ {id} :
                    /\ Storage_get_session(D, x) = Ret(D, "Ok", sessions[x])
                    /\ \A t \in TaskIDs :
                            Storage_get_task(D, x, t).ret = Storage_get_task(Store, x, t).ret
                            /\ Storage_get_task(D, x, t).val = Storage_get_task(Store, x, t).val

\* A session that had a task in flight has been deleted, and another session
\* with a task is still in the store.
C14_Witness ==
    /\ \E e \in DOMAIN executors :
            /\ executors[e].ssn_id # None
            /\ executors[e].ssn_id \notin DOMAIN sessions
            /\ executors[e].task_id # None
    /\ \E x \in DOMAIN sessions : DOMAIN sessions[x].tasks # {}

\* C15: a watch_task(s, t) that is pending when session s is deleted resolves
\* with NotFound on its next poll: the poll of a pending watch on a deleted
\* session is done with NotFound, no watch on a deleted session resolves with
\* anything else, and under repeated polling no such watch stays pending.
C15_WatchDeletedNotFound ==
    /\ [](\A k \in 1..MaxWatch :
            (watches[k].pc = "pending" /\ watches[k].ssn_id \notin DOMAIN sessions) =>
                LET v == WatchTaskFuture_poll(Store, watches[k])
                IN  v.pc = "done" /\ v.ret = "NotFound" /\ v.val = NoTask)
    /\ [][\A k \in 1..MaxWatch :
            (watches[k].pc = "pending" /\ watches'[k].pc = "done"
             /\ watches[k].ssn_id \notin DOMAIN sessions) =>
                (watches'[k].ret = "NotFound" /\ watches'[k].val = NoTask)]_vars
    /\ \A k \in 1..MaxWatch :
            (watches[k].pc = "pending" /\ watches[k].ssn_id \notin DOMAIN sessions)
                ~> (watches[k].pc # "pending")

\* A watch is pending on a task that was in flight when its session was
\* deleted.
C15_Witness ==
    \E k \in 1..MaxWatch : \E e \in DOMAIN executors :
        /\ watches[k].pc = "pending"
        /\ watches[k].ssn_id \notin DOMAIN sessions
        /\ executors[e].ssn_id = watches[k].ssn_id
        /\ executors[e].task_id = watches[k].task_id

\* C16: a wait_for_session(e) that is pending when the executor record of e
\* is removed from the executors map resolves with NotFound: a poll of a
\* pending wait whose executor is no longer in the map is done with NotFound.
C16_WaitDeletedNotFound ==
    \A k \in DOMAIN waits :
        (waits[k].pc = "pending" /\ waits[k].id \notin DOMAIN executors) =>
            LET v == WaitForSsnFuture_poll(Store, waits[k])
            IN  v.pc = "done" /\ v.ret = "NotFound"

\* C17: unbind_executor_completed(e) on an Unbinding executor e attached to a
\* session s of the store returns e to Idle and takes one allocation from s:
\* s.allocated is one less than before, and equals the number of executors
\* still attached to s.
C17_UnbindReleasesAllocation ==
    \A id \in DOMAIN executors :
        LET s == executors[id].ssn_id
        IN  (executors[id].state = "Unbinding" /\ s \in DOMAIN sessions) =>
                LET r == Storage_unbind_executor_completed(Store, id)
                IN  /\ r.ret = "Ok"
                    /\ r.executors[id].state = "Idle"
                    /\ r.sessions[s].allocated = sessions[s].allocated - 1
                    /\ r.sessions[s].allocated =
                            Cardinality({x \in DOMAIN r.executors : r.executors[x].ssn_id = s})

\* C18: the watch_task RPC always ends cleanly: when it is over it has
\* answered with a normal response (the task was terminal) or with the status
\* not_found (the task or session was deleted); the handler never panics.
C18_WatchRpcEndsCleanly ==
    frontend.pc = "done" => frontend.ret \in {"Ok", "not_found"}

\* C20: complete_task is atomic for every other operation on the same
\* executor: while the call has cleared e.task_id and has not yet written the
\* output and made the task Succeed, it holds the executor's lock, and no
\* other call reads or changes the executor, the session or the task.
C20_CompleteTaskAtomic ==
    /\ [](completing.pc # "idle" =>
            <<"executor", completing.id>> \in completing.locks)
    /\ [][(completing.pc # "idle" /\ completing' = completing) =>
            UNCHANGED <<sessions, executors>>]_vars

\* The place of a lock in the order executors map, executor, sessions map,
\* session, task.
LockRank(l) ==
    CASE l[1] = "executors" -> 1
      [] l[1] = "executor" -> 2
      [] l[1] = "sessions" -> 3
      [] l[1] = "session" -> 4
      [] l[1] = "task" -> 5

\* C19: a thread that takes a lock while it holds others holds only locks
\* that come earlier in the order executors map, executor, sessions map,
\* session, task; and no set of threads is ever deadlocked, each of them
\* waiting for a lock another of them holds.
C19_LockOrder ==
    /\ \A th \in DOMAIN threads :
            \A i, j \in DOMAIN threads[th].held :
                i < j => LockRank(threads[th].held[i]) < LockRank(threads[th].held[j])
    /\ \A W \in SUBSET (DOMAIN threads) :
            W # {} =>
                \E th \in W :
                    ~(/\ threads[th].todo # << >>
                      /\ Head(threads[th].todo).a = "lock"
                      /\ \E o \in W : Head(threads[th].todo).l \in Held(o))

\* A thread holds two locks at once, and another thread, holding a lock
\* itself, waits for one of them.
C19_Witness ==
    \E th, o \in DOMAIN threads :
        /\ th # o
        /\ Len(threads[th].held) >= 2
        /\ threads[o].held # << >>
        /\ Blocked(o)
        /\ Head(threads[o].todo).l \in Held(th)

\* C21: launch_task on an Unbinding executor hands out no task, neither a
\* Pending one nor the one in flight, and changes nothing: no task leaves the
\* Pending bucket and the executor's task_id is not set.
C21_UnbindingNoLaunch ==
    \A id \in DOMAIN executors :
        executors[id].state = "Unbinding" =>
            \A pick \in Picks(Store, id) :
                LET r == Storage_launch_task(Store, id, pick)
                IN  r.val = None /\ StoreOf(r) = Store

\* C22: a task is handed to at most one executor: no two distinct executors
\* hold the same (ssn_id, task_id), the task an executor holds is a Running
\* task of its session, and launch_task on an executor with a task in flight
\* returns that task and pops no Pending task.
C22_TaskToOneExecutor ==
    /\ \A e1, e2 \in DOMAIN executors :
            (e1 # e2 /\ executors[e1].task_id # None
                /\ executors[e1].ssn_id = executors[e2].ssn_id)
                => executors[e1].task_id # executors[e2].task_id
    /\ \A id \in DOMAIN executors :
            LET e == executors[id]
            IN  e.task_id # None =>
                    /\ e.ssn_id \in DOMAIN sessions
                    /\ e.task_id \in DOMAIN sessions[e.ssn_id].tasks
                    /\ sessions[e.ssn_id].tasks[e.task_id].state = "Running"
                    /\ \A pick \in Picks(Store, id) :
                            LET r == Storage_launch_task(Store, id, pick)
                            IN  /\ r.ret = "Ok" /\ r.val = e.task_id
                                /\ StoreOf(r) = Store

----------------------------------------------------------------------------
\* create_task and close_session taken in the two parts their engine await
\* separates: the engine call, and then the update of the cached session. A
\* call whose engine call failed has returned; one whose engine call
\* succeeded is in `calls` until it has updated the cache.

\* Storage::create_task up to the await: the engine creates the task.
Storage_create_task_engine(S, ssn_id) ==
    LET r == Engine_create_task(S.engine, ssn_id)
    IN  IF r.ret # "Ok" THEN Ret(S, r.ret, None)
        ELSE Ret([S EXCEPT !.engine = r.eng], "Ok", r.val)

\* Storage::create_task after the await: the task the engine returned, which
\* is Pending, is added to the cached session, whatever its state is now.
Storage_create_task_cache(S, ssn_id, task_id) ==
    IF Storage_get_session_ptr(S, ssn_id) # "Ok" THEN Ret(S, "NotFound", None)
    ELSE Ret([S EXCEPT !.sessions[ssn_id] =
                    add_task(@, task_id, [state |-> "Pending", output |-> None])],
             "Ok", task_id)

\* Storage::close_session up to the await: the engine closes the session.
Storage_close_session_engine(S, id) ==
    LET r == Engine_close_session(S.engine, id)
    IN  IF r.ret # "Ok" THEN Ret(S, r.ret, None)
        ELSE Ret([S EXCEPT !.engine = r.eng], "Ok", r.val)

\* Storage::close_session after the await: the cached session becomes Closed.
Storage_close_session_cache(S, id) ==
    IF Storage_get_session_ptr(S, id) # "Ok" THEN Ret(S, "NotFound", None)
    ELSE Ret([S EXCEPT !.sessions[id].state = "Closed"], "Ok", None)

CreateTask_engine(Ss) ==
    \E c \in DOMAIN calls, ssn_id \in Ss :
        LET r == Storage_create_task_engine(Store, ssn_id)
        IN  /\ calls[c] = NoCall
            /\ ssn_id \in DOMAIN engine.ssns =>
                    Cardinality(DOMAIN engine.ssns[ssn_id].tasks) < MaxTask
            /\ Apply(r)
            /\ calls' = IF r.ret = "Ok"
                        THEN [calls EXCEPT
                                ![c] = [op |-> "create_task", ssn_id |-> ssn_id,
                                        task_id |-> r.val]]
                        ELSE calls
            /\ UNCHANGED <<closed, waits, watches, frontend, completing, threads, process>>

CreateTask_cache ==
    \E c \in DOMAIN calls :
        /\ calls[c].op = "create_task"
        /\ Apply(Storage_create_task_cache(Store, calls[c].ssn_id, calls[c].task_id))
        /\ calls' = [calls EXCEPT ![c] = NoCall]
        /\ UNCHANGED <<closed, waits, watches, frontend, completing, threads, process>>

CloseSession_engine(Ss) ==
    \E c \in DOMAIN calls, id \in Ss :
        LET r == Storage_close_session_engine(Store, id)
        IN  /\ calls[c] = NoCall
            /\ Apply(r)
            /\ calls' = IF r.ret = "Ok"
                        THEN [calls EXCEPT
                                ![c] = [op |-> "close_session", ssn_id |-> r.val,
                                        task_id |-> None]]
                        ELSE calls
            /\ UNCHANGED <<closed, waits, watches, frontend, completing, threads, process>>

CloseSession_cache ==
    \E c \in DOMAIN calls :
        LET r == Storage_close_session_cache(Store, calls[c].ssn_id)
        IN  /\ calls[c].op = "close_session"
            /\ Apply(r)
            /\ closed' = IF r.ret = "Ok" THEN closed \cup {calls[c].ssn_id} ELSE closed
            /\ calls' = [calls EXCEPT ![c] = NoCall]
            /\ UNCHANGED <<waits, watches, frontend, completing, threads, process>>

\* Sessions are created and deleted while create_task and close_session
\* calls interleave at their awaits.
NextAwait ==
    \/ CreateSession(SessionIDs)
    \/ DeleteSession(SessionIDs)
    \/ CreateTask_engine(SessionIDs)
    \/ CreateTask_cache
    \/ CloseSession_engine(SessionIDs)
    \/ CloseSession_cache

SpecAwait == Init /\ [][NextAwait]_vars

\* C23: no task is inserted into a cached session whose state is Closed: a
\* step leaves the tasks of a Closed session that stays in the map as they
\* were, so every task of a Closed session was inserted while it was Open.
C23_ClosedSessionGainsNoTask ==
    [][\A s \in DOMAIN sessions \cap DOMAIN sessions' :
            sessions[s].state = "Closed" =>
                DOMAIN sessions'[s].tasks \subseteq DOMAIN sessions[s].tasks]_vars

----------------------------------------------------------------------------
\* The executor process. It registers, then runs the execute of its local
\* state again and again; each action is one call of an execute, with the
\* server's handling of the verb it sends. An error ends the execute (`?`):
\* the local Executor is left as it was and nothing calls execute again.

Fail(call) == [process EXCEPT !.pc = "failed", !.failed = call]

Process_register ==
    /\ process.pc = "new"
    /\ Apply(Storage_register_executor(Store, ProcessExec, "Idle"))
    /\ process' = [process EXCEPT !.pc = "IdleState"]
    /\ UNCHANGED <<closed, waits, watches, frontend, completing, threads, calls>>

\* client::bind_executor(..).await?: the server's wait_for_session, which
\* answers once the executor has a session.
IdleState_execute_bind_executor ==
    LET w == Storage_wait_for_session(Store, ProcessExec)
    IN  /\ process.pc = "IdleState"
        /\ w.pc = "done"
        /\ process' = IF w.ret = "Ok"
                      THEN [process EXCEPT !.pc = "get_application", !.ssn = w.val,
                                           !.trace = <<"bind_executor">>]
                      ELSE [Fail("bind_executor") EXCEPT !.trace = <<"bind_executor">>]
        /\ UNCHANGED <<sessions, executors, engine, closed, waits, watches, frontend,
                       completing, threads, calls>>

\* ctx.get_application(&ssn.application): None => Err(NotFound).
IdleState_execute_get_application ==
    /\ process.pc = "get_application"
    /\ \E found \in BOOLEAN :
            process' = IF found THEN [process EXCEPT !.pc = "shims_from"]
                       ELSE Fail("get_application")
    /\ UNCHANGED <<sessions, executors, engine, closed, waits, watches, frontend,
                   completing, threads, calls>>

\* shims::from(&app)?
IdleState_execute_shims_from ==
    /\ process.pc = "shims_from"
    /\ \E ok \in BOOLEAN :
            process' = IF ok THEN [process EXCEPT !.pc = "on_session_enter"]
                       ELSE Fail("shims_from")
    /\ UNCHANGED <<sessions, executors, engine, closed, waits, watches, frontend,
                   completing, threads, calls>>

\* Faulty variant: the error of on_session_enter is logged and execute goes on.
IdleState_execute_on_session_enter_goes_on ==
    /\ process.pc = "on_session_enter"
    /\ \E ok \in BOOLEAN :
            process' = [process EXCEPT !.trace = Append(@, "on_session_enter"),
                                       !.pc = "bind_executor_completed",
                                       !.failed = IF ok THEN "None" ELSE "on_session_enter"]
    /\ UNCHANGED <<sessions, executors, engine, closed, waits, watches, frontend,
                   completing, threads, calls>>

\* shim.on_session_enter(&ssn)?
IdleState_execute_on_session_enter ==
    /\ process.pc = "on_session_enter"
    /\ \E ok \in BOOLEAN :
            LET called == [process EXCEPT !.trace = Append(@, "on_session_enter")]
            IN  process' = IF ok THEN [called EXCEPT !.pc = "bind_executor_completed"]
                           ELSE [called EXCEPT !.pc = "failed",
                                               !.failed = "on_session_enter"]
    /\ UNCHANGED <<sessions, executors, engine, closed, waits, watches, frontend,
                   completing, threads, calls>>

\* client::bind_executor_completed(..).await?
IdleState_execute_bind_executor_completed ==
    LET r == Storage_bind_session_completed(Store, ProcessExec)
        called == [process EXCEPT !.trace = Append(@, "bind_executor_completed")]
    IN  /\ process.pc = "bind_executor_completed"
        /\ Apply(r)
        /\ process' = IF r.ret = "Ok" THEN [called EXCEPT !.pc = "own_shim"]
                      ELSE [called EXCEPT !.pc = "failed",
                                          !.failed = "bind_executor_completed"]
        /\ UNCHANGED <<closed, waits, watches, frontend, completing, threads, calls>>

\* Own the shim: executor.shim, executor.session, executor.state = Bound.
IdleState_execute_own_shim ==
    /\ process.pc = "own_shim"
    /\ process' = [process EXCEPT !.pc = "BoundState", !.shim = TRUE,
                                  !.session = process.ssn, !.state = "Bound"]
    /\ UNCHANGED <<sessions, executors, engine, closed, waits, watches, frontend,
                   completing, threads, calls>>

\* The Bound executor asks for a task.
BoundState_execute_launch_task ==
    \E pick \in Picks(Store, ProcessExec) :
        LET r == Storage_launch_task(Store, ProcessExec, pick)
        IN  /\ process.pc = "BoundState"
            /\ Apply(r)
            /\ process' = IF r.ret # "Ok" THEN Fail("launch_task")
                          ELSE IF r.val = None THEN process
                          ELSE [process EXCEPT !.pc = "on_task_invoke", !.task = r.val]
            /\ UNCHANGED <<closed, waits, watches, frontend, completing, threads, calls>>

\* The shim has run the task; the executor reports its output.
BoundState_execute_complete_task ==
    \E task_output \in TaskOutputs :
        LET r == Storage_complete_task(Store, ProcessExec, task_output)
        IN  /\ process.pc = "on_task_invoke"
            /\ Apply(r)
            /\ process' = IF r.ret # "Ok" THEN Fail("complete_task")
                          ELSE [process EXCEPT !.pc = "BoundState", !.task = None]
            /\ UNCHANGED <<closed, waits, watches, frontend, completing, threads, calls>>

\* The Bound executor, with no task at hand, leaves its session.
BoundState_execute_unbound ==
    /\ process.pc = "BoundState"
    /\ process' = [process EXCEPT !.pc = "UnboundState", !.state = "Unbound"]
    /\ UNCHANGED <<sessions, executors, engine, closed, waits, watches, frontend,
                   completing, threads, calls>>

\* Faulty variant: unbind_executor is not sent before the shim leaves the session.
UnboundState_execute_unbind_executor_not_sent ==
    /\ process.pc = "UnboundState"
    /\ process' = [process EXCEPT !.pc = "on_session_leave", !.trace = << >>]
    /\ UNCHANGED <<sessions, executors, engine, closed, waits, watches, frontend,
                   completing, threads, calls>>

\* client::unbind_executor(..).await?
UnboundState_execute_unbind_executor ==
    LET r == Storage_unbind_executor(Store, ProcessExec)
    IN  /\ process.pc = "UnboundState"
        /\ Apply(r)
        /\ process' = IF r.ret = "Ok"
                      THEN [process EXCEPT !.pc = "on_session_leave",
                                           !.trace = <<"unbind_executor">>]
                      ELSE [Fail("unbind_executor") EXCEPT !.trace = <<"unbind_executor">>]
        /\ UNCHANGED <<closed, waits, watches, frontend, completing, threads, calls>>

\* executor.shim or InvalidState; then shim.on_session_leave().await?
UnboundState_execute_on_session_leave ==
    /\ process.pc = "on_session_leave"
    /\ \E ok \in BOOLEAN :
            process' = IF ~process.shim THEN Fail("shim")
                       ELSE LET called == [process EXCEPT
                                            !.trace = Append(@, "on_session_leave")]
                            IN  IF ok
                                THEN [called EXCEPT !.pc = "unbind_executor_completed"]
                                ELSE [called EXCEPT !.pc = "failed",
                                                    !.failed = "on_session_leave"]
    /\ UNCHANGED <<sessions, executors, engine, closed, waits, watches, frontend,
                   completing, threads, calls>>

\* client::unbind_executor_completed(..).await?
UnboundState_execute_unbind_executor_completed ==
    LET r == Storage_unbind_executor_completed(Store, ProcessExec)
        called == [process EXCEPT !.trace = Append(@, "unbind_executor_completed")]
    IN  /\ process.pc = "unbind_executor_completed"
        /\ Apply(r)
        /\ process' = IF r.ret = "Ok" THEN [called EXCEPT !.pc = "idle"]
                      ELSE [called EXCEPT !.pc = "failed",
                                          !.failed = "unbind_executor_completed"]
        /\ UNCHANGED <<closed, waits, watches, frontend, completing, threads, calls>>

\* executor.task, session and shim = None; executor.state = Idle.
UnboundState_execute_idle ==
    /\ process.pc = "idle"
    /\ process' = [process EXCEPT !.pc = "IdleState", !.task = None, !.session = None,
                                  !.shim = FALSE, !.state = "Idle"]
    /\ UNCHANGED <<sessions, executors, engine, closed, waits, watches, frontend,
                   completing, threads, calls>>

\* The scheduler's pass: it binds the executor to a session and launches
\* tasks on it, while clients create sessions and tasks.
NextProcess ==
    \/ CreateSession(SessionIDs)
    \/ CreateTask(SessionIDs)
    \/ BindSession({ProcessExec}, SessionIDs)
    \/ LaunchTask({ProcessExec})
    \/ Process_register
    \/ IdleState_execute_bind_executor
    \/ IdleState_execute_get_application
    \/ IdleState_execute_shims_from
    \/ IdleState_execute_on_session_enter
    \/ IdleState_execute_bind_executor_completed
    \/ IdleState_execute_own_shim
    \/ BoundState_execute_launch_task
    \/ BoundState_execute_complete_task
    \/ BoundState_execute_unbound
    \/ UnboundState_execute_unbind_executor
    \/ UnboundState_execute_on_session_leave
    \/ UnboundState_execute_unbind_executor_completed
    \/ UnboundState_execute_idle

SpecProcess == Init /\ [][NextProcess]_vars

\* C24: the calls of IdleState::execute are bind_executor, on_session_enter,
\* bind_executor_completed, in that order and once each; when the
\* application lookup or on_session_enter has failed, bind_executor_completed
\* has not been sent, the local executor is Idle with no shim and no session,
\* and the process does nothing more (no retry).
C24_BindOrder ==
    /\ [](LET order == <<"bind_executor", "on_session_enter", "bind_executor_completed">>
              t == process.trace
          IN  /\ (t # << >> /\ t[1] = "bind_executor") =>
                    /\ Len(t) <= Len(order)
                    /\ \A i \in 1..Len(t) : t[i] = order[i]
              /\ process.pc = "bind_executor_completed" =>
                    t = <<"bind_executor", "on_session_enter">> /\ process.failed = "None"
              /\ process.failed \in {"get_application", "on_session_enter"} =>
                    /\ \A i \in 1..Len(t) : t[i] # "bind_executor_completed"
                    /\ process.state = "Idle"
                    /\ ~process.shim
                    /\ process.session = None)
    /\ [][process.failed \in {"get_application", "on_session_enter"} =>
            process' = process]_vars

\* on_session_enter failed after bind_executor returned one of two sessions;
\* the server's record is left in Binding.
C24_Witness ==
    /\ process.failed = "on_session_enter"
    /\ process.trace = <<"bind_executor", "on_session_enter">>
    /\ executors[ProcessExec].state = "Binding"
    /\ \E s \in DOMAIN sessions : s # process.ssn

\* C25 as stated: no verb the executor process sends is rejected by the
\* server, and after each execute the local state equals the state of the
\* server's record: Bound (with the same session) after IdleState::execute,
\* Idle with no session and no task after UnboundState::execute.
C25_LocalEqualsServer ==
    /\ process.failed \notin {"bind_executor", "bind_executor_completed", "launch_task",
                              "complete_task", "unbind_executor",
                              "unbind_executor_completed"}
    /\ process.pc = "BoundState" =>
            /\ process.state = "Bound"
            /\ executors[ProcessExec].state = "Bound"
            /\ executors[ProcessExec].ssn_id = process.session
    /\ (process.pc = "IdleState" /\ process.trace # << >>) =>
            /\ process.state = "Idle" /\ process.session = None /\ process.task = None
            /\ executors[ProcessExec].state = "Idle"
            /\ executors[ProcessExec].ssn_id = None
            /\ executors[ProcessExec].task_id = None

\* C25 amended: no verb the executor process sends is rejected by the server;
\* after IdleState::execute the local state and the server's record are both
\* Bound, with the same session; after UnboundState::execute the local
\* executor is Idle with no session and no task, and the server's record has
\* no task and is either Idle with no session or, when the scheduler has
\* bound it again since unbind_executor_completed, Binding with a session.
C25_LocalFollowsServer ==
    /\ process.failed \notin {"bind_executor", "bind_executor_completed", "launch_task",
                              "complete_task", "unbind_executor",
                              "unbind_executor_completed"}
    /\ process.pc = "BoundState" =>
            /\ process.state = "Bound"
            /\ executors[ProcessExec].state = "Bound"
            /\ executors[ProcessExec].ssn_id = process.session
    /\ (process.pc = "IdleState" /\ process.trace # << >>) =>
            /\ process.state = "Idle" /\ process.session = None /\ process.task = None
            /\ executors[ProcessExec].task_id = None
            /\ \/ /\ executors[ProcessExec].state = "Idle"
                  /\ executors[ProcessExec].ssn_id = None
               \/ /\ executors[ProcessExec].state = "Binding"
                  /\ executors[ProcessExec].ssn_id \in DOMAIN sessions

\* UnboundState::execute has returned after a task was run, and the scheduler
\* has bound the executor again: local Idle, server Binding.
C25_Witness ==
    /\ process.pc = "IdleState"
    /\ process.trace = <<"unbind_executor", "on_session_leave", "unbind_executor_completed">>
    /\ process.state = "Idle"
    /\ executors[ProcessExec].state = "Binding"
    /\ \E s \in DOMAIN sessions : sessions[s].tasks_by_state["Succeed"] # {}

\* C26: a pending wait_for_session(e) follows the record stored under e: once
\* e was registered again while the wait was pending and bind_session(e, s)
\* has bound the new record to a session s of the store, the next poll of
\* the wait resolves it with s.
C26_WaitFollowsCurrentRecord ==
    \A k \in DOMAIN waits :
        LET w == waits[k]
        IN  (/\ w.pc = "pending"
             /\ ~w.live
             /\ executors[w.id].state = "Binding"
             /\ executors[w.id].ssn_id \in DOMAIN sessions) =>
                LET p == WaitForSsnFuture_poll(Store, w)
                IN  p.pc = "done" /\ p.ret = "Ok" /\ p.val = executors[w.id].ssn_id

----------------------------------------------------------------------------
\* The engine becomes unavailable and available again while the Storage
\* calls go on; every engine call made while it is down fails.

Engine_fault ==
    /\ engine' = [engine EXCEPT !.down = ~@]
    /\ UNCHANGED <<sessions, executors, closed, waits, watches, frontend, completing,
                   threads, calls, process>>

NextEngine ==
    \/ SessionVerbs(SessionIDs)
    \/ ExecutorVerbs({EngineExec}, SessionIDs)
    \/ TaskVerbs({EngineExec}, SessionIDs)
    \/ Engine_fault

SpecEngine == Init /\ [][NextEngine]_vars

\* C27: when the engine call inside create_session, close_session,
\* delete_session, create_task or update_task_state fails, the operation
\* returns the engine's error and the cache (the sessions map, with every
\* session's state, tasks and tasks_by_state) is as it was before the call.
C27_EngineErrorLeavesCache ==
    engine.down =>
        /\ LET r == Storage_create_session(Store)
           IN  r.ret = "Internal" /\ r.sessions = sessions
        /\ \A id \in SessionIDs :
                /\ LET r == Storage_close_session(Store, id)
                   IN  r.ret = "Internal" /\ r.sessions = sessions
                /\ LET r == Storage_delete_session(Store, id)
                   IN  r.ret = "Internal" /\ r.sessions = sessions
                /\ LET r == Storage_create_task(Store, id)
                   IN  r.ret = "Internal" /\ r.sessions = sessions
        /\ \A s \in DOMAIN sessions : \A t \in DOMAIN sessions[s].tasks :
                \A state \in TaskStates :
                    LET r == Storage_update_task_state(Store, s, t, state)
                    IN  r.ret = "Internal" /\ r.sessions = sessions /\ r.replaced = {}

\* The engine is down while the cache holds an Open session with a Running
\* task in flight and a Pending one, and the engine has a session id left:
\* each of the five operations has something to change.
C27_Witness ==
    /\ engine.down
    /\ engine.next_id \in SessionIDs
    /\ EngineExec \in DOMAIN executors
    /\ \E s \in DOMAIN sessions :
            /\ sessions[s].state = "Open"
            /\ sessions[s].tasks_by_state["Pending"] # {}
            /\ executors[EngineExec].ssn_id = s
            /\ executors[EngineExec].task_id \in sessions[s].tasks_by_state["Running"]
            /\ Storage_create_task(Store, s).ret = "Internal"

\* C28: an executor's ssn_id is a session of the sessions map and its task_id
\* a task of that session; so wait_for_session, launch_task and
\* complete_task on an executor in Binding, Bound or Unbinding do not fail
\* with NotFound.
C28_ExecutorRefersToStore ==
    \A id \in DOMAIN executors :
        LET e == executors[id]
        IN  /\ e.ssn_id # None =>
                    /\ e.ssn_id \in DOMAIN sessions
                    /\ e.task_id # None => e.task_id \in DOMAIN sessions[e.ssn_id].tasks
            /\ e.state \in {"Binding", "Bound", "Unbinding"} =>
                    /\ Storage_wait_for_session(Store, id).ret # "NotFound"
                    /\ \A pick \in Picks(Store, id) :
                            Storage_launch_task(Store, id, pick).ret # "NotFound"
                    /\ \A task_output \in TaskOutputs :
                            Storage_complete_task(Store, id, task_output).ret # "NotFound"

====
